---------------------------- MODULE Spec2Model ----------------------------
(***************************************************************************)
(* Watch-rule store, watch evaluator, settings editor and the dashboard's  *)
(* refresh cycle of the CoinGuard UI.                                      *)
(*                                                                         *)
(* Numbers that the code holds as floating-point percentages (24h change,  *)
(* thresholds, on-chain fields) are held here in thousandths, so 7.2 is    *)
(* 7200 and the 0.01 tolerance of compareValues is 10.  Risk scores and    *)
(* level ordinals are scaled the same way before they are compared.        *)
(* Timestamps are milliseconds; Date -> toISOString -> new Date keeps the  *)
(* millisecond value, so a stored timestamp is its millisecond number.     *)
(***************************************************************************)
EXTENDS Integers, Sequences, FiniteSets, TLC

VARIABLES
    now,                  \* wall clock, ms (Date.now())
    storageFull,          \* localStorage.setItem currently throws
    storedRules,          \* localStorage['coinguard_watch_rules']
    storedNotifications,  \* localStorage['coinguard_watch_notifications']
    nextRuleId,           \* source of fresh rule ids
    notifSeq,             \* source of fresh notification ids
    isOpen,               \* WatchSettings: the editor is shown
    rules,                \* WatchSettings: the editor's copy of the rules
    delivered,            \* notifications handed to onNotification by the latest pass
    notifications,        \* App: in-app toasts (newest first, at most 5)
    coins,                \* App: the published asset list
    cyc,                  \* App: one record per refresh cycle (closure state)
    analyzing,            \* App: analyzing flag
    loading,              \* App: loading flag
    analysisErrors,       \* App: ids of the assets whose analysis failed
    lastChecked,          \* the asset list of the latest checkAllWatchRules call
    signals,              \* latest scoring call, if analyzeCoinSignal: the upstream responses
    assessed,             \*   and what it returned
    snapshot,             \* latest scoring call, if calculateRiskScore: the stats
    composite,            \*   and what it returned
    request,              \* latest summarizer call: its data, the API key, the reply
    summary               \*   and what it returned

vars == <<now, storageFull, storedRules, storedNotifications, nextRuleId,
          notifSeq, isOpen, rules, delivered, notifications, coins, cyc,
          analyzing, loading, analysisErrors, lastChecked, signals, assessed,
          snapshot, composite, request, summary>>

watchVars == <<storedRules, storedNotifications, notifSeq, delivered,
               notifications, lastChecked>>
editorVars == <<isOpen, rules, nextRuleId>>
scoreVars == <<signals, assessed, snapshot, composite, request, summary>>
appVars == <<coins, cyc, analyzing, loading, analysisErrors, scoreVars>>

-----------------------------------------------------------------------------
(* Bounds *)

NumCoins == 2        \* how many entries of COINS_CONFIG are tracked
MaxRules == 1        \* rules created in one run
MaxConds == 1        \* conditions per rule in the editor
MaxNotifs == 3       \* notifications emitted in one run
MaxTicks == 3        \* clock advances in one run
TickMs == 20000      \* length of one clock advance, ms
MaxCycles == 2       \* refresh cycles in one run
MaxCondsIn == 2      \* conditions per rule among the matcher's inputs

(* Program constants *)

REFRESH_INTERVAL_MS == 30000   \* setInterval period of the refresh timer
COOLDOWN_MS == 60000           \* diffMinutes < 1
EPSILON == 10                  \* 0.01, in thousandths
MAX_STORED_NOTIFICATIONS == 100
MAX_TOASTS == 5
UNAVAILABLE == -1              \* riskScore sentinel

-----------------------------------------------------------------------------
(* Values *)

\* An optional number: a present value, or undefined / null / NaN / absent key.
Some(x) == [some |-> TRUE, v |-> x]
None == [some |-> FALSE, v |-> 0]

\* An absent object (undefined analysis, stats or onChain).
Absent == [present |-> FALSE]

\* WatchCondition.value is a number or a string.
Num(n) == [kind |-> "num", n |-> n, s |-> ""]
Str(s) == [kind |-> "str", n |-> 0, s |-> s]

\* WatchRule.coinSymbols is null or a list of symbols.
AllCoins == [isNull |-> TRUE, list |-> <<>>]
Only(list) == [isNull |-> FALSE, list |-> list]

COINS_CONFIG == <<"BTC", "ETH", "SOL", "BNB", "XRP", "ADA", "AVAX", "DOGE", "DOT", "LINK">>

Symbols == {COINS_CONFIG[i] : i \in 1..NumCoins}

OPERATORS == {">", ">=", "<", "<=", "=="}

Abs(x) == IF x < 0 THEN -x ELSE x

RECURSIVE SeqToSet(_)
SeqToSet(s) == IF s = <<>> THEN {} ELSE {Head(s)} \cup SeqToSet(Tail(s))

\* Array.prototype.slice(0, n)
Slice(s, n) == IF Len(s) <= n THEN s ELSE SubSeq(s, 1, n)

-----------------------------------------------------------------------------
(* Condition evaluation *)

\* JavaScript's number coercion of a condition value used as a comparison
\* operand: a number is itself, '' is 0, any other string here is NaN.
ToNumber(v) ==
    IF v.kind = "num" THEN Some(v.n)
    ELSE IF v.s = "" THEN Some(0)
    ELSE None

\* compareValues on actual = num/den (den > 0) against a target, all in
\* thousandths; every comparison with NaN is false.
CompareRatio(num, den, operator, target) ==
    IF ~target.some THEN FALSE
    ELSE CASE operator = ">"  -> num > target.v * den
           [] operator = "<"  -> num < target.v * den
           [] operator = ">=" -> num >= target.v * den
           [] operator = "<=" -> num <= target.v * den
           [] operator = "==" -> Abs(num - target.v * den) < EPSILON * den
           [] OTHER -> FALSE

\* compareValues with its operands exchanged
compareValuesSwapped(actual, operator, target) ==
    IF ~target.some THEN FALSE
    ELSE CompareRatio(target.v, 1, operator, Some(actual))

compareValues(actual, operator, target) == CompareRatio(actual, 1, operator, target)

getRiskLevelValue(level) ==
    IF level.kind # "str" THEN 0
    ELSE CASE level.s = "LOW" -> 1
           [] level.s = "MEDIUM" -> 2
           [] level.s = "HIGH" -> 3
           [] level.s = "EXTREME" -> 4
           [] OTHER -> 0

\* checkCondition comparing the risk score and level without the tests for
\* the unavailable assessment
checkConditionNoSentinel(condition, coin) ==
    IF ~coin.analysis.present THEN FALSE
    ELSE IF ~coin.analysis.stats.present THEN FALSE
    ELSE
      LET analysis == coin.analysis
          stats == analysis.stats
      IN CASE condition.type = "news_risk_tag" ->
                IF condition.riskTag = "" THEN FALSE
                ELSE IF stats.news.riskTags = {} THEN FALSE
                ELSE condition.riskTag \in stats.news.riskTags
           [] condition.type = "social_negative" ->
                IF stats.social.totalCount = 0 THEN FALSE
                ELSE CompareRatio(stats.social.negativeCount * 100 * 1000,
                                  stats.social.totalCount,
                                  condition.operator, ToNumber(condition.value))
           [] condition.type = "onchain_netflow" ->
                IF ~stats.onChain.present THEN FALSE
                ELSE compareValues(stats.onChain.netflowPercent,
                                   condition.operator, ToNumber(condition.value))
           [] condition.type = "onchain_active_address" ->
                IF ~stats.onChain.present THEN FALSE
                ELSE compareValues(stats.onChain.activeAddressChange,
                                   condition.operator, ToNumber(condition.value))
           [] condition.type = "price_change" ->
                IF ~coin.change24h.some THEN FALSE
                ELSE compareValues(coin.change24h.v, condition.operator,
                                   ToNumber(condition.value))
           [] condition.type = "risk_score" ->
                compareValues(analysis.riskScore * 1000, condition.operator,
                              ToNumber(condition.value))
           [] condition.type = "risk_level" ->
                compareValues(getRiskLevelValue(Str(analysis.riskLevel)) * 1000,
                              condition.operator,
                              Some(getRiskLevelValue(condition.value) * 1000))
           [] OTHER -> FALSE

\* riskScore is always a number in an AIAnalysisResult the program builds, so
\* the undefined / null arms of the risk_score guard are not separate cases.
checkCondition(condition, coin) ==
    IF ~coin.analysis.present THEN FALSE
    ELSE IF ~coin.analysis.stats.present THEN FALSE
    ELSE
      LET analysis == coin.analysis
          stats == analysis.stats
      IN CASE condition.type = "news_risk_tag" ->
                IF condition.riskTag = "" THEN FALSE
                ELSE IF stats.news.riskTags = {} THEN FALSE
                ELSE condition.riskTag \in stats.news.riskTags
           [] condition.type = "social_negative" ->
                IF stats.social.totalCount = 0 THEN FALSE
                ELSE CompareRatio(stats.social.negativeCount * 100 * 1000,
                                  stats.social.totalCount,
                                  condition.operator, ToNumber(condition.value))
           [] condition.type = "onchain_netflow" ->
                IF ~stats.onChain.present THEN FALSE
                ELSE compareValues(stats.onChain.netflowPercent,
                                   condition.operator, ToNumber(condition.value))
           [] condition.type = "onchain_active_address" ->
                IF ~stats.onChain.present THEN FALSE
                ELSE compareValues(stats.onChain.activeAddressChange,
                                   condition.operator, ToNumber(condition.value))
           [] condition.type = "price_change" ->
                IF ~coin.change24h.some THEN FALSE
                ELSE compareValues(coin.change24h.v, condition.operator,
                                   ToNumber(condition.value))
           [] condition.type = "risk_score" ->
                IF analysis.riskScore = UNAVAILABLE THEN FALSE
                ELSE compareValues(analysis.riskScore * 1000, condition.operator,
                                   ToNumber(condition.value))
           [] condition.type = "risk_level" ->
                IF analysis.riskLevel = ""
                   \/ (analysis.riskLevel = "LOW" /\ analysis.riskScore = UNAVAILABLE)
                THEN FALSE
                ELSE compareValues(getRiskLevelValue(Str(analysis.riskLevel)) * 1000,
                                   condition.operator,
                                   Some(getRiskLevelValue(condition.value) * 1000))
           [] OTHER -> FALSE

\* rule.enabled, as read by checkWatchConditions and by the enabledRules filter
IsEnabledAlways(rule) == TRUE

IsEnabled(rule) == rule.enabled

\* The coin filter: applied only to a non-null, non-empty symbol list.
InScopeAny(rule, coin) == TRUE

\* The coin filter applied to every non-null list, the empty one included
InScopeListed(rule, coin) ==
    IF ~rule.coinSymbols.isNull
    THEN coin.symbol \in SeqToSet(rule.coinSymbols.list)
    ELSE TRUE

InScope(rule, coin) ==
    IF ~rule.coinSymbols.isNull /\ Len(rule.coinSymbols.list) > 0
    THEN coin.symbol \in SeqToSet(rule.coinSymbols.list)
    ELSE TRUE

\* Array.prototype.every over the rule's conditions
AnyConditionHolds(rule, coin) ==
    \E i \in 1..Len(rule.conditions) : checkCondition(rule.conditions[i], coin)

AllConditionsHold(rule, coin) ==
    \A i \in 1..Len(rule.conditions) : checkCondition(rule.conditions[i], coin)

checkWatchConditionsVacuous(rule, coin) ==
    /\ IsEnabled(rule)
    /\ InScope(rule, coin)
    /\ AllConditionsHold(rule, coin)

checkWatchConditions(rule, coin) ==
    IF ~IsEnabled(rule) THEN FALSE
    ELSE IF ~InScope(rule, coin) THEN FALSE
    ELSE IF Len(rule.conditions) = 0 THEN FALSE
    ELSE AllConditionsHold(rule, coin)

-----------------------------------------------------------------------------
(* Watch rule store *)

\* saveWatchRules: the write is dropped when setItem throws.
saveWatchRules(store, rs, full) == IF full THEN store ELSE rs

\* { ...rule, ...updates }: the keys of updates replace those of rule.
Merge(rule, updates) ==
    [f \in DOMAIN rule |-> IF f \in DOMAIN updates THEN updates[f] ELSE rule[f]]

\* The own keys of a rule object: lastTriggered is a key only once it is set.
OwnKeys(rule) ==
    IF rule.lastTriggered.some THEN DOMAIN rule ELSE DOMAIN rule \ {"lastTriggered"}

AsUpdates(rule) == [f \in OwnKeys(rule) |-> rule[f]]

IndexOfRule(rs, id) ==
    IF \E i \in 1..Len(rs) : rs[i].id = id
    THEN CHOOSE i \in 1..Len(rs) : rs[i].id = id /\ \A j \in 1..(i-1) : rs[j].id # id
    ELSE 0

\* updateWatchRule creating the rule when the id is not stored
updateWatchRuleUpsert(store, id, updates, full) ==
    LET index == IndexOfRule(store, id)
    IN IF index # 0
       THEN saveWatchRules(store, [store EXCEPT ![index] = Merge(store[index], updates)], full)
       ELSE saveWatchRules(store,
                Append(store, Merge([id |-> id, enabled |-> TRUE, coinSymbols |-> AllCoins,
                                     conditions |-> <<>>, lastTriggered |-> None],
                                    updates)), full)

updateWatchRule(store, id, updates, full) ==
    LET index == IndexOfRule(store, id)
    IN IF index # 0
       THEN saveWatchRules(store, [store EXCEPT ![index] = Merge(store[index], updates)], full)
       ELSE store

deleteWatchRule(store, id, full) ==
    saveWatchRules(store, SelectSeq(store, LAMBDA r : r.id # id), full)

NewRule(id, coinSymbols) ==
    [id |-> id, enabled |-> TRUE, coinSymbols |-> coinSymbols,
     conditions |-> <<>>, lastTriggered |-> None]

addWatchRule(store, rule, full) == saveWatchRules(store, Append(store, rule), full)

-----------------------------------------------------------------------------
(* Notifications and the evaluation pass *)

\* saveNotification: unshift, keep the first 100, write (dropped when setItem throws)
saveNotificationUncapped(stored, notification, full) ==
    IF full THEN stored ELSE <<notification>> \o stored

saveNotification(stored, notification, full) ==
    IF full THEN stored
    ELSE Slice(<<notification>> \o stored, MAX_STORED_NOTIFICATIONS)

\* markNotificationAsRead: sets the read flag of the first record with this id
markNotificationAsRead(stored, id, full) ==
    IF full \/ ~\E i \in 1..Len(stored) : stored[i].id = id THEN stored
    ELSE LET index == CHOOSE i \in 1..Len(stored) :
                         stored[i].id = id /\ \A j \in 1..(i - 1) : stored[j].id # id
         IN [stored EXCEPT ![index].read = TRUE]

\* deleteNotification: filter(n => n.id !== id)
deleteNotification(stored, id, full) ==
    IF full THEN stored ELSE SelectSeq(stored, LAMBDA n : n.id # id)

\* The App's onNotification callback: [notification, ...prev.slice(0, 4)]
PushToast(prev, notification) == <<notification>> \o Slice(prev, MAX_TOASTS - 1)

\* The de-duplication test of checkAllWatchRules on the rule object it holds.
CooldownOver(rule, t) ==
    IF rule.lastTriggered.some
    THEN ~((t - rule.lastTriggered.v) < COOLDOWN_MS)
    ELSE TRUE

\* triggerNotification on the pass state st = [rules, stored, toasts, out, seq]
triggerNotification(st, rule, coin, t, full) ==
    LET notification == [id |-> st.seq + 1, watchRuleId |-> rule.id,
                         coinSymbol |-> coin.symbol, triggeredAt |-> t,
                         read |-> FALSE]
    IN [rules  |-> updateWatchRule(st.rules, rule.id,
                                   [lastTriggered |-> Some(t)], full),
        stored |-> saveNotification(st.stored, notification, full),
        toasts |-> PushToast(st.toasts, notification),
        out    |-> Append(st.out, notification),
        seq    |-> st.seq + 1]

\* enabledRules.forEach(rule => coins.forEach(coin => ...)): the k-th visit is
\* rule (k-1) \div Len(list) + 1 with coin (k-1) % Len(list) + 1; every visit
\* reads the rule object loaded at the start of the pass.
RECURSIVE VisitFrom(_, _, _, _, _, _)
VisitFrom(k, enabledRules, list, st, t, full) ==
    IF k > Len(enabledRules) * Len(list) THEN st
    ELSE LET rule == enabledRules[((k - 1) \div Len(list)) + 1]
             coin == list[((k - 1) % Len(list)) + 1]
             next == IF checkWatchConditions(rule, coin) /\ CooldownOver(rule, t)
                     THEN triggerNotification(st, rule, coin, t, full)
                     ELSE st
         IN VisitFrom(k + 1, enabledRules, list, next, t, full)

PassResult(list, store, stored, toasts, seq, t, full) ==
    LET loaded == store
        enabledRules == SelectSeq(loaded, IsEnabled)
    IN VisitFrom(1, enabledRules, list,
                 [rules |-> store, stored |-> stored, toasts |-> toasts,
                  out |-> <<>>, seq |-> seq], t, full)

\* checkAllWatchRules(coins, onNotification) as called by the App
checkAllWatchRules(list) ==
    LET res == PassResult(list, storedRules, storedNotifications, notifications,
                          notifSeq, now, storageFull)
    IN /\ res.seq <= MaxNotifs
       /\ storedRules' = res.rules
       /\ storedNotifications' = res.stored
       /\ notifications' = res.toasts
       /\ delivered' = res.out
       /\ notifSeq' = res.seq
       /\ lastChecked' = list

-----------------------------------------------------------------------------
(* Inputs of the matcher *)

Cond(type, operator, value, riskTag) ==
    [type |-> type, operator |-> operator, value |-> value, riskTag |-> riskTag]

CondInputs ==
    { Cond("price_change", ">", Num(5000), ""),
      Cond("social_negative", ">=", Num(30000), ""),
      Cond("news_risk_tag", ">", Str(""), "hack"),
      Cond("onchain_netflow", ">", Num(20000), ""),
      Cond("onchain_active_address", "<=", Num(-20000), ""),
      Cond("risk_score", "<", Num(90000), ""),
      Cond("risk_level", "<=", Str("HIGH"), "") }

CondLists == UNION { [1..n -> CondInputs] : n \in 0..MaxCondsIn }

ScopeInputs == {AllCoins, Only(<<>>)} \cup { Only(<<s>>) : s \in Symbols }

RuleInputs ==
    { [id |-> 1, enabled |-> e, coinSymbols |-> sc, conditions |-> cl,
       lastTriggered |-> None] :
      e \in BOOLEAN, sc \in ScopeInputs, cl \in CondLists }

Stats(newsNeg, newsTotal, tags, socialNeg, socialTotal, onChain) ==
    [present |-> TRUE,
     news |-> [negativeCount |-> newsNeg, totalCount |-> newsTotal, riskTags |-> tags],
     social |-> [negativeCount |-> socialNeg, totalCount |-> socialTotal],
     onChain |-> onChain]

OnChain(netflow, active) ==
    [present |-> TRUE, netflowPercent |-> netflow, activeAddressChange |-> active]

Analysis(score, level, stats) ==
    [present |-> TRUE, riskScore |-> score, riskLevel |-> level, stats |-> stats]

Coin(symbol, change, cycle, analysis) ==
    [symbol |-> symbol, change24h |-> change, cycle |-> cycle, analysis |-> analysis]

\* Asset states: <<24h change, analysis>>
HotHacked ==
    <<Some(7200),
      Analysis(82, "HIGH", Stats(40, 100, {"hack"}, 20, 50, OnChain(25000, -25000)))>>
Calm ==
    <<Some(3000), Analysis(13, "LOW", Stats(0, 0, {}, 0, 0, OnChain(0, 0)))>>
HotUnscored ==
    <<Some(7200), Analysis(UNAVAILABLE, "LOW", Stats(10, 20, {}, 5, 50, Absent))>>
NoStats ==
    <<None, Analysis(55, "MEDIUM", Absent)>>
HotUnanalysed ==
    <<Some(7200), Absent>>
CalmRisky ==
    <<Some(3000),
      Analysis(75, "HIGH", Stats(5, 100, {"regulation"}, 30, 60, OnChain(-5000, 12000)))>>

AssetStates == {HotHacked, Calm, HotUnscored, NoStats, HotUnanalysed, CalmRisky}

CoinInputs == { Coin(s, st[1], 0, st[2]) : s \in Symbols, st \in AssetStates }

-----------------------------------------------------------------------------
(* The matcher on drawn inputs: one stored rule, one asset per call *)

\* A refresh cycle that has not started: phase of refreshMarketData /
\* runAIAnalysis, the closure's updatedCoins and newErrors, the indices whose
\* analysis is still in flight, and whether the evaluator ran on its list.
IdleCycle ==
    [phase |-> "idle", updatedCoins |-> <<>>, pending |-> {}, newErrors |-> {},
     watched |-> FALSE, summarizing |-> {}]

QuietApp ==
    /\ coins = <<>>
    /\ cyc = [c \in 1..MaxCycles |-> IdleCycle]
    /\ analyzing = FALSE
    /\ loading = FALSE
    /\ analysisErrors = {}
    /\ signals = Absent
    /\ assessed = Absent
    /\ snapshot = Absent
    /\ composite = Absent
    /\ request = Absent
    /\ summary = Absent

InitMatch ==
    /\ now = 0
    /\ storageFull = FALSE
    /\ \E rule \in RuleInputs : storedRules = <<rule>>
    /\ storedNotifications = <<>>
    /\ nextRuleId = 2
    /\ notifSeq = 0
    /\ isOpen = FALSE
    /\ rules = <<>>
    /\ delivered = <<>>
    /\ notifications = <<>>
    /\ lastChecked = <<>>
    /\ QuietApp

CheckOne(coin) ==
    /\ checkAllWatchRules(<<coin>>)
    /\ UNCHANGED <<now, storageFull, editorVars, appVars>>

NextMatch == \E coin \in CoinInputs : CheckOne(coin)

SpecMatch == InitMatch /\ [][NextMatch]_vars

-----------------------------------------------------------------------------
(* Settings editor (WatchSettings) *)

\* useEffect on isOpen: setRules(loadWatchRules())
OpenSettings ==
    /\ ~isOpen
    /\ isOpen' = TRUE
    /\ rules' = storedRules
    /\ UNCHANGED <<now, storageFull, nextRuleId, watchVars, appVars>>

CloseSettings ==
    /\ isOpen
    /\ isOpen' = FALSE
    /\ UNCHANGED <<now, storageFull, rules, nextRuleId, watchVars, appVars>>

\* rules.map(r => r.id === id ? updated : r)
ReplaceRule(rs, id, updated) ==
    [i \in 1..Len(rs) |-> IF rs[i].id = id THEN updated ELSE rs[i]]

EditorFrame ==
    UNCHANGED <<now, storageFull, isOpen, storedNotifications, notifSeq,
                delivered, notifications, lastChecked, appVars>>

\* The new rule's scope is null or the one symbol picked in the drop-down.
handleAddRule(coinSymbols) ==
    /\ isOpen
    /\ nextRuleId <= MaxRules
    /\ LET rule == NewRule(nextRuleId, coinSymbols)
       IN /\ storedRules' = addWatchRule(storedRules, rule, storageFull)
          /\ rules' = Append(rules, rule)
    /\ nextRuleId' = nextRuleId + 1
    /\ EditorFrame

handleDeleteRule(i) ==
    /\ isOpen
    /\ i \in 1..Len(rules)
    /\ storedRules' = deleteWatchRule(storedRules, rules[i].id, storageFull)
    /\ rules' = SelectSeq(rules, LAMBDA r : r.id # rules[i].id)
    /\ UNCHANGED nextRuleId
    /\ EditorFrame

handleToggleEnabled(i) ==
    /\ isOpen
    /\ i \in 1..Len(rules)
    /\ LET rule == rules[i]
       IN /\ storedRules' = updateWatchRule(storedRules, rule.id,
                                            [enabled |-> ~rule.enabled], storageFull)
          /\ rules' = ReplaceRule(rules, rule.id, [rule EXCEPT !.enabled = ~rule.enabled])
    /\ UNCHANGED nextRuleId
    /\ EditorFrame

\* The three condition handlers write the editor's whole copy of the rule.
WriteEditedRule(rule, conditions) ==
    LET updated == [rule EXCEPT !.conditions = conditions]
    IN /\ storedRules' = updateWatchRule(storedRules, rule.id,
                                         AsUpdates(updated), storageFull)
       /\ rules' = ReplaceRule(rules, rule.id, updated)

handleAddCondition(i) ==
    /\ isOpen
    /\ i \in 1..Len(rules)
    /\ Len(rules[i].conditions) < MaxConds
    /\ WriteEditedRule(rules[i],
           Append(rules[i].conditions, Cond("price_change", ">", Num(5000), "")))
    /\ UNCHANGED nextRuleId
    /\ EditorFrame

handleUpdateCondition(i, conditionIndex, updates) ==
    /\ isOpen
    /\ i \in 1..Len(rules)
    /\ conditionIndex \in 1..Len(rules[i].conditions)
    /\ WriteEditedRule(rules[i],
           [rules[i].conditions EXCEPT
              ![conditionIndex] = Merge(rules[i].conditions[conditionIndex], updates)])
    /\ UNCHANGED nextRuleId
    /\ EditorFrame

handleDeleteCondition(i, conditionIndex) ==
    /\ isOpen
    /\ i \in 1..Len(rules)
    /\ conditionIndex \in 1..Len(rules[i].conditions)
    /\ WriteEditedRule(rules[i],
           LET cs == rules[i].conditions
           IN [k \in 1..(Len(cs) - 1) |-> IF k < conditionIndex THEN cs[k] ELSE cs[k + 1]])
    /\ UNCHANGED nextRuleId
    /\ EditorFrame

handleUpdateRuleCoins(i, coinSymbols) ==
    /\ isOpen
    /\ i \in 1..Len(rules)
    /\ LET rule == rules[i]
       IN /\ storedRules' = updateWatchRule(storedRules, rule.id,
                                            [coinSymbols |-> coinSymbols], storageFull)
          /\ rules' = ReplaceRule(rules, rule.id, [rule EXCEPT !.coinSymbols = coinSymbols])
    /\ UNCHANGED nextRuleId
    /\ EditorFrame

\* What the scope drop-downs can produce
EditorScopes == {AllCoins} \cup { Only(<<s>>) : s \in Symbols }

\* The operator select of a numeric condition
OperatorUpdates == { [operator |-> op] : op \in {">", "<"} }

-----------------------------------------------------------------------------
(* Environment and the watch specification *)

Tick ==
    /\ now < MaxTicks * TickMs
    /\ now' = now + TickMs
    /\ UNCHANGED <<storageFull, editorVars, watchVars, appVars>>

\* Fully analysed asset lists, as the App's effect hands them to the evaluator
WatchLists ==
    { <<Coin("BTC", HotUnscored[1], 0, HotUnscored[2]),
        Coin("ETH", HotHacked[1], 0, HotHacked[2])>>,
      <<Coin("BTC", Calm[1], 0, Calm[2]),
        Coin("ETH", HotHacked[1], 0, HotHacked[2])>> }

Evaluate(list) ==
    /\ checkAllWatchRules(list)
    /\ UNCHANGED <<now, storageFull, editorVars, appVars>>

Init ==
    /\ now = 0
    /\ storageFull = FALSE
    /\ storedRules = <<>>
    /\ storedNotifications = <<>>
    /\ nextRuleId = 1
    /\ notifSeq = 0
    /\ isOpen = FALSE
    /\ rules = <<>>
    /\ delivered = <<>>
    /\ notifications = <<>>
    /\ lastChecked = <<>>
    /\ QuietApp

Next ==
    \/ Tick
    \/ OpenSettings
    \/ CloseSettings
    \/ \E sc \in EditorScopes : handleAddRule(sc)
    \/ \E i \in 1..MaxRules : handleDeleteRule(i)
    \/ \E i \in 1..MaxRules : handleToggleEnabled(i)
    \/ \E i \in 1..MaxRules : handleAddCondition(i)
    \/ \E i \in 1..MaxRules, k \in 1..MaxConds, u \in OperatorUpdates :
          handleUpdateCondition(i, k, u)
    \/ \E i \in 1..MaxRules, k \in 1..MaxConds : handleDeleteCondition(i, k)
    \/ \E i \in 1..MaxRules, sc \in EditorScopes : handleUpdateRuleCoins(i, sc)
    \/ \E list \in WatchLists : Evaluate(list)

Spec == Init /\ [][Next]_vars

-----------------------------------------------------------------------------
(* The rule store under failing writes and a second tab *)

\* localStorage.setItem starts to throw (quota exceeded) and stops again.
StorageFills ==
    /\ ~storageFull
    /\ storageFull' = TRUE
    /\ UNCHANGED <<now, editorVars, watchVars, appVars>>

StorageFrees ==
    /\ storageFull
    /\ storageFull' = FALSE
    /\ UNCHANGED <<now, editorVars, watchVars, appVars>>

\* handleDeleteRule run by the settings view of another tab of the same
\* origin: the two tabs share localStorage, not the editor's copy.
OtherTabDeletes(id) ==
    /\ IndexOfRule(storedRules, id) # 0
    /\ storedRules' = deleteWatchRule(storedRules, id, storageFull)
    /\ UNCHANGED <<now, storageFull, editorVars, storedNotifications, notifSeq,
                   delivered, notifications, lastChecked, appVars>>

\* One asset list for the passes; rules of scope "all" only.
StoreList ==
    <<Coin("BTC", HotUnscored[1], 0, HotUnscored[2]),
      Coin("ETH", Calm[1], 0, Calm[2])>>

NextStore ==
    \/ OpenSettings
    \/ CloseSettings
    \/ handleAddRule(AllCoins)
    \/ \E i \in 1..MaxRules : handleDeleteRule(i)
    \/ \E i \in 1..MaxRules : handleToggleEnabled(i)
    \/ \E i \in 1..MaxRules : handleAddCondition(i)
    \/ Evaluate(StoreList)
    \/ StorageFills
    \/ StorageFrees
    \/ \E id \in 1..MaxRules : OtherTabDeletes(id)

SpecStore == Init /\ [][NextStore]_vars

-----------------------------------------------------------------------------
(* The App: refresh cycles, per-asset analysis and the watch effect *)

\* coins.length > 0 && coins.every(coin => coin.analysis)
CoinsReadySome(list) ==
    Len(list) > 0 /\ \E j \in 1..Len(list) : list[j].analysis.present

CoinsReady(list) ==
    Len(list) > 0 /\ \A j \in 1..Len(list) : list[j].analysis.present

\* The useEffect on [coins], run with the list just published
WatchEffect(list) ==
    IF CoinsReady(list)
    THEN checkAllWatchRules(list)
    ELSE UNCHANGED watchVars

\* refreshMarketData up to its await; cycles after the first are started by
\* the 30-second interval timer, whatever the earlier cycles are doing.
StartRefresh(c) ==
    /\ cyc[c].phase = "idle"
    /\ \A d \in 1..(c - 1) : cyc[d].phase # "idle"
    /\ now' = IF c = 1 THEN now ELSE now + REFRESH_INTERVAL_MS
    /\ loading' = TRUE
    /\ cyc' = [cyc EXCEPT ![c].phase = "fetching"]
    /\ UNCHANGED <<storageFull, editorVars, watchVars, coins, analyzing,
                   analysisErrors, scoreVars>>

\* COINS_CONFIG.map(...).filter(coin !== null) over the tickers that arrived
RECURSIVE NewCoins(_, _, _)
NewCoins(k, tickers, c) ==
    IF k > NumCoins THEN <<>>
    ELSE (IF COINS_CONFIG[k] \in DOMAIN tickers
          THEN <<Coin(COINS_CONFIG[k], tickers[COINS_CONFIG[k]], c, Absent)>>
          ELSE <<>>) \o NewCoins(k + 1, tickers, c)

\* refreshMarketData after the await, and runAIAnalysis up to its first await
PricesArrive(c, tickers) ==
    /\ cyc[c].phase = "fetching"
    /\ LET newCoins == NewCoins(1, tickers, c)
       IN /\ coins' = newCoins
          /\ loading' = FALSE
          /\ analysisErrors' = {}
          /\ analyzing' = (Len(newCoins) > 0)
          /\ cyc' = [cyc EXCEPT ![c] =
                        [phase |-> IF Len(newCoins) > 0 THEN "analyzing" ELSE "done",
                         updatedCoins |-> newCoins,
                         pending |-> 1..Len(newCoins),
                         newErrors |-> {},
                         watched |-> CoinsReady(newCoins),
                         summarizing |-> {}]]
          /\ WatchEffect(newCoins)
    /\ UNCHANGED <<now, storageFull, editorVars, scoreVars>>

\* runAIAnalysis writing each result into the list on display (a functional
\* setCoins on the previous state) instead of publishing its own list
AnalysisSettlesOnPublished(c, index, analysis) ==
    /\ cyc[c].phase = "analyzing"
    /\ index \in cyc[c].pending
    /\ LET coin == cyc[c].updatedCoins[index]
           updatedCoins == [cyc[c].updatedCoins EXCEPT ![index].analysis = analysis]
           published == IF index <= Len(coins)
                        THEN [coins EXCEPT ![index] = updatedCoins[index]]
                        ELSE coins
           newErrors == IF analysis.present THEN cyc[c].newErrors
                        ELSE cyc[c].newErrors \cup {coin.symbol}
           pending == cyc[c].pending \ {index}
       IN /\ coins' = published
          /\ cyc' = [cyc EXCEPT ![c] =
                        [phase |-> IF pending = {} THEN "done" ELSE "analyzing",
                         updatedCoins |-> updatedCoins,
                         pending |-> pending,
                         newErrors |-> newErrors,
                         watched |-> cyc[c].watched \/ CoinsReady(published),
                         summarizing |->
                             { s \in cyc[c].summarizing : s.index # index }]]
          /\ analysisErrors' = IF pending = {} THEN newErrors ELSE analysisErrors
          /\ analyzing' = IF pending = {} THEN FALSE ELSE analyzing
          /\ WatchEffect(published)
    /\ UNCHANGED <<now, storageFull, editorVars, loading, scoreVars>>

\* One asset's analyzeCoinSignal settles: an assessment, or null on failure.
\* The closure's selectedCoin is the null of the first render, so that branch
\* never runs.
AnalysisSettles(c, index, analysis) ==
    /\ cyc[c].phase = "analyzing"
    /\ index \in cyc[c].pending
    /\ LET coin == cyc[c].updatedCoins[index]
           updatedCoins == [cyc[c].updatedCoins EXCEPT ![index].analysis = analysis]
           newErrors == IF analysis.present THEN cyc[c].newErrors
                        ELSE cyc[c].newErrors \cup {coin.symbol}
           pending == cyc[c].pending \ {index}
       IN /\ coins' = updatedCoins
          /\ cyc' = [cyc EXCEPT ![c] =
                        [phase |-> IF pending = {} THEN "done" ELSE "analyzing",
                         updatedCoins |-> updatedCoins,
                         pending |-> pending,
                         newErrors |-> newErrors,
                         watched |-> cyc[c].watched \/ CoinsReady(updatedCoins),
                         summarizing |->
                             { s \in cyc[c].summarizing : s.index # index }]]
          /\ analysisErrors' = IF pending = {} THEN newErrors ELSE analysisErrors
          /\ analyzing' = IF pending = {} THEN FALSE ELSE analyzing
          /\ WatchEffect(updatedCoins)
    /\ UNCHANGED <<now, storageFull, editorVars, loading, scoreVars>>

PriceInputs == {Some(7200), Some(3000)}

TickerInputs == UNION { [have -> PriceInputs] : have \in SUBSET Symbols }

\* What analyzeCoinSignal can return: null, or an assessment whose stats have
\* no risk tags, an on-chain object and an active-address change of 0.
AnalysisOutcomes ==
    { Absent,
      Analysis(82, "HIGH", Stats(40, 100, {}, 20, 50, OnChain(25000, 0))),
      Analysis(UNAVAILABLE, "LOW", Stats(10, 20, {}, 5, 50, OnChain(0, 0))) }

\* A rule an earlier session left in the store
PersistedRule ==
    [id |-> 1, enabled |-> TRUE, coinSymbols |-> AllCoins,
     conditions |-> <<Cond("price_change", ">", Num(5000), "")>>,
     lastTriggered |-> None]

InitApp ==
    /\ now = 0
    /\ storageFull = FALSE
    /\ storedRules = <<PersistedRule>>
    /\ storedNotifications = <<>>
    /\ nextRuleId = 2
    /\ notifSeq = 0
    /\ isOpen = FALSE
    /\ rules = <<>>
    /\ delivered = <<>>
    /\ notifications = <<>>
    /\ lastChecked = <<>>
    /\ QuietApp

NextApp ==
    \/ \E c \in 1..MaxCycles : StartRefresh(c)
    \/ \E c \in 1..MaxCycles, tickers \in TickerInputs : PricesArrive(c, tickers)
    \/ \E c \in 1..MaxCycles, index \in 1..NumCoins, analysis \in AnalysisOutcomes :
          AnalysisSettles(c, index, analysis)

SpecApp == InitApp /\ [][NextApp]_vars

-----------------------------------------------------------------------------
(* Risk scoring: calculateRiskScore *)

\* tagWeights[tag] || 10
TagWeight(tag) ==
    CASE tag \in {"hack", "exploit"} -> 40
      [] tag = "fraud" -> 35
      [] tag = "market_crash" -> 30
      [] tag = "exchange_issue" -> 25
      [] tag \in {"regulation", "lawsuit"} -> 20
      [] tag = "technical" -> 15
      [] OTHER -> 10

MaxTagWeight(tags) ==
    IF tags = {} THEN 0
    ELSE CHOOSE w \in {TagWeight(t) : t \in tags} :
            \A t \in tags : TagWeight(t) <= w

\* riskTagStrength in tenths: min(40, maxTagWeight * (1 + (length - 1) * 0.1))
RiskTagStrength10(tags) ==
    LET raw == MaxTagWeight(tags) * (10 + (Cardinality(tags) - 1))
    IN IF raw < 400 THEN raw ELSE 400

\* The sub-scores are fractions num / den with den > 0; a ratio over a zero
\* total is 0 (the totalCount > 0 test), never a division.
NewsScore(stats) ==
    LET total == stats.news.totalCount
        den == IF total > 0 THEN total ELSE 1
        neg == IF total > 0 THEN stats.news.negativeCount ELSE 0
        tagPart == IF Cardinality(stats.news.riskTags) > 0
                   THEN RiskTagStrength10(stats.news.riskTags) ELSE 0
    IN [num |-> 600 * neg + tagPart * den, den |-> 10 * den]

SocialScore(stats) ==
    LET total == stats.social.totalCount
        den == IF total > 0 THEN total ELSE 1
        neg == IF total > 0 THEN stats.social.negativeCount ELSE 0
    IN [num |-> 100 * neg, den |-> den]

\* netflowPercent and activeAddressChange are held in thousandths
NetflowScore(nf) ==
    IF nf >= 30000 THEN 100
    ELSE IF nf >= 20000 THEN 80
    ELSE IF nf >= 10000 THEN 60
    ELSE IF nf >= 0 THEN 40
    ELSE IF nf >= -10000 THEN 30
    ELSE IF nf >= -20000 THEN 20
    ELSE 10

ActiveScore(aa) ==
    IF aa <= -20000 THEN 100
    ELSE IF aa <= -10000 THEN 70
    ELSE IF aa <= 0 THEN 50
    ELSE IF aa <= 10000 THEN 40
    ELSE IF aa <= 20000 THEN 30
    ELSE 20

\* The on-chain sub-score with its two weights exchanged
OnChainScoreSwapped(stats) ==
    [num |-> 4 * NetflowScore(stats.onChain.netflowPercent)
               + 6 * ActiveScore(stats.onChain.activeAddressChange),
     den |-> 10]

OnChainScore(stats) ==
    [num |-> 6 * NetflowScore(stats.onChain.netflowPercent)
               + 4 * ActiveScore(stats.onChain.activeAddressChange),
     den |-> 10]

\* totalScore = newsScore * 0.4 + socialScore * 0.3 + onChainScore * 0.3
TotalScore(stats) ==
    LET n == NewsScore(stats)
        s == SocialScore(stats)
        o == OnChainScore(stats)
    IN [num |-> 4 * n.num * s.den * o.den + 3 * s.num * n.den * o.den
                  + 3 * o.num * n.den * s.den,
        den |-> 10 * n.den * s.den * o.den]

\* Math.round of a non-negative fraction: halves go up
RoundFraction(q) == (2 * q.num + q.den) \div (2 * q.den)

\* The level is classified on the unrounded total, the score is its rounding.
calculateRiskScore(stats) ==
    LET totalScore == TotalScore(stats)
        level == IF totalScore.num >= 70 * totalScore.den THEN "HIGH"
                 ELSE IF totalScore.num >= 40 * totalScore.den THEN "MEDIUM"
                 ELSE "LOW"
    IN [present |-> TRUE, score |-> RoundFraction(totalScore), level |-> level]

-----------------------------------------------------------------------------
(* Risk scoring: analyzeCoinSignal *)

\* fetchSentimentStats: total and the count of its 'negative' entry (0 if none)
SentimentResp(total, negative) ==
    [present |-> TRUE, total |-> total, negative |-> negative]

\* fetchRiskScore: overall_risk_score is a number; risk_level is "" if not sent
RiskResp(score, level) ==
    [present |-> TRUE, overall_risk_score |-> score, risk_level |-> level]

\* fetchCoinMarketData: volume_percentage, in thousandths
MarketResp(volume) == [present |-> TRUE, volume_percentage |-> volume]

\* const hasRequiredData = newsStats || socialStats
HasRequiredDataBoth(newsStats, socialStats) ==
    newsStats.present /\ socialStats.present

HasRequiredData(newsStats, socialStats) ==
    newsStats.present \/ socialStats.present

\* riskScore: overallScore ?? -1
ReportedScoreFalsy(riskData) ==
    IF riskData.present /\ riskData.overall_risk_score # 0
    THEN riskData.overall_risk_score ELSE UNAVAILABLE

ReportedScore(riskData) ==
    IF riskData.present THEN riskData.overall_risk_score ELSE UNAVAILABLE

\* riskLevel: riskLevel || 'LOW', where riskLevel is the backend's level, the
\* level computed from the backend's score, or null without a score
ReportedLevel(riskData) ==
    IF riskData.present
    THEN IF riskData.risk_level # "" THEN riskData.risk_level
         ELSE IF riskData.overall_risk_score >= 70 THEN "HIGH"
         ELSE IF riskData.overall_risk_score >= 40 THEN "MEDIUM"
         ELSE "LOW"
    ELSE "LOW"

\* The stats built from the responses: zeros for a missing category, no risk
\* tags, netflow from the market data's volume share, activeAddressChange 0
\* (the market data carries no active-address count).
BuildStatsTagged(newsStats, socialStats, coinMarketData) ==
    Stats(IF newsStats.present THEN newsStats.negative ELSE 0,
          IF newsStats.present THEN newsStats.total ELSE 0,
          IF newsStats.present THEN {"hack"} ELSE {},
          IF socialStats.present THEN socialStats.negative ELSE 0,
          IF socialStats.present THEN socialStats.total ELSE 0,
          OnChain(IF coinMarketData.present THEN coinMarketData.volume_percentage ELSE 0,
                  0))

BuildStats(newsStats, socialStats, coinMarketData) ==
    Stats(IF newsStats.present THEN newsStats.negative ELSE 0,
          IF newsStats.present THEN newsStats.total ELSE 0,
          {},
          IF socialStats.present THEN socialStats.negative ELSE 0,
          IF socialStats.present THEN socialStats.total ELSE 0,
          OnChain(IF coinMarketData.present THEN coinMarketData.volume_percentage ELSE 0,
                  0))

analyzeCoinSignal(coin, newsStats, socialStats, riskData, coinMarketData) ==
    IF ~HasRequiredData(newsStats, socialStats) THEN Absent
    ELSE Analysis(ReportedScore(riskData), ReportedLevel(riskData),
                  BuildStats(newsStats, socialStats, coinMarketData))

\* getRiskVisuals(risk).label
getRiskVisuals(risk) ==
    CASE risk = "LOW" -> "LOW RISK"
      [] risk = "MEDIUM" -> "MEDIUM RISK"
      [] risk = "HIGH" -> "HIGH RISK"
      [] risk = "EXTREME" -> "EXTREME RISK"
      [] OTHER -> "ANALYZING"

\* The badge of the dashboard's coin card: coin.analysis ? visuals.label : 'ANALYZING'
CardLabel(coin) ==
    IF coin.analysis.present THEN getRiskVisuals(coin.analysis.riskLevel)
    ELSE "ANALYZING"

-----------------------------------------------------------------------------
(* The scoring engine on drawn inputs *)

NewsInputs == {Absent, SentimentResp(0, 0), SentimentResp(100, 40)}

SocialInputs == {Absent, SentimentResp(0, 0), SentimentResp(50, 10)}

RiskInputs ==
    {Absent, RiskResp(0, ""), RiskResp(45, ""), RiskResp(82, "HIGH"), RiskResp(150, "")}

MarketInputs == {Absent, MarketResp(25000)}

\* Snapshots for calculateRiskScore: negativeCount <= totalCount
SnapshotInputs ==
    { Stats(n[1], n[2], tags, s[1], s[2], OnChain(nf, aa)) :
        n \in {<<0, 0>>, <<40, 100>>, <<100, 100>>},
        tags \in {{}, {"hack"}, {"regulation", "lawsuit"}},
        s \in {<<0, 0>>, <<10, 50>>, <<50, 50>>},
        nf \in {-25000, 0, 25000, 35000},
        aa \in {-25000, 0, 25000} }

Analyze(coin, newsStats, socialStats, riskData, coinMarketData) ==
    /\ signals' = [present |-> TRUE, symbol |-> coin.symbol,
                   change24h |-> coin.change24h, newsStats |-> newsStats,
                   socialStats |-> socialStats, riskData |-> riskData,
                   coinMarketData |-> coinMarketData]
    /\ assessed' = analyzeCoinSignal(coin, newsStats, socialStats, riskData,
                                     coinMarketData)
    /\ snapshot' = Absent
    /\ composite' = Absent
    /\ UNCHANGED <<now, storageFull, editorVars, watchVars, coins, cyc, analyzing,
                   loading, analysisErrors, request, summary>>

Score(stats) ==
    /\ snapshot' = stats
    /\ composite' = calculateRiskScore(stats)
    /\ signals' = Absent
    /\ assessed' = Absent
    /\ UNCHANGED <<now, storageFull, editorVars, watchVars, coins, cyc, analyzing,
                   loading, analysisErrors, request, summary>>

NextScore ==
    \/ \E symbol \in Symbols, change \in PriceInputs, newsStats \in NewsInputs,
          socialStats \in SocialInputs, riskData \in RiskInputs,
          coinMarketData \in MarketInputs :
          Analyze(Coin(symbol, change, 0, Absent), newsStats, socialStats,
                  riskData, coinMarketData)
    \/ \E stats \in SnapshotInputs : Score(stats)

SpecScore == Init /\ [][NextScore]_vars

-----------------------------------------------------------------------------
(* The notification history near its capacity *)

HistoryRoom == 2     \* free slots of the history at the start, at most

\* A history an earlier session left behind: n records of the persisted rule,
\* newest first, one per cooldown period, the newest a full period ago.
EarlierHistory(n) ==
    [p \in 1..n |-> [id |-> 1 - p, watchRuleId |-> 1, coinSymbol |-> "BTC",
                     triggeredAt |-> -(p * COOLDOWN_MS), read |-> FALSE]]

InitHistory ==
    /\ now = 0
    /\ storageFull = FALSE
    /\ storedRules = <<[PersistedRule EXCEPT !.lastTriggered = Some(-COOLDOWN_MS)]>>
    /\ \E room \in 0..HistoryRoom :
          storedNotifications = EarlierHistory(MAX_STORED_NOTIFICATIONS - room)
    /\ nextRuleId = 2
    /\ notifSeq = 0
    /\ isOpen = FALSE
    /\ rules = <<>>
    /\ delivered = <<>>
    /\ notifications = <<>>
    /\ lastChecked = <<>>
    /\ QuietApp

HistoryFrame ==
    UNCHANGED <<now, storageFull, storedRules, notifSeq, delivered, notifications,
                lastChecked, editorVars, appVars>>

ReadNotification(position) ==
    /\ position \in 1..Len(storedNotifications)
    /\ storedNotifications' = markNotificationAsRead(storedNotifications,
                                  storedNotifications[position].id, storageFull)
    /\ HistoryFrame

RemoveNotification(position) ==
    /\ position \in 1..Len(storedNotifications)
    /\ Len(storedNotifications) > MAX_STORED_NOTIFICATIONS - HistoryRoom
    /\ storedNotifications' = deleteNotification(storedNotifications,
                                  storedNotifications[position].id, storageFull)
    /\ HistoryFrame

NextHistory ==
    \/ Tick
    \/ \E list \in WatchLists : Evaluate(list)
    \/ ReadNotification(1)
    \/ \E position \in 1..2 : RemoveNotification(position)

SpecHistory == InitHistory /\ [][NextHistory]_vars

-----------------------------------------------------------------------------
(* The refresh cycle with its upstream calls told apart *)

\* The indices of a cycle whose summarizer call is in flight
Summarizing(c) == { s.index : s \in cyc[c].summarizing }

\* analyzeCoinSignal after its Promise.all: the four signal fetches have
\* answered or failed.  With a score and a level it goes on to the summarizer
\* (a fetch when an API key is configured, an immediate default otherwise);
\* without them, or with neither news nor social, it returns at once.
SignalsArrive(c, index, analysis, hasKey) ==
    /\ cyc[c].phase = "analyzing"
    /\ index \in cyc[c].pending \ Summarizing(c)
    /\ IF analysis.present /\ analysis.riskScore # UNAVAILABLE /\ hasKey
       THEN /\ cyc' = [cyc EXCEPT ![c].summarizing =
                          @ \cup {[index |-> index, analysis |-> analysis]}]
            /\ UNCHANGED <<now, storageFull, editorVars, watchVars, coins,
                           analyzing, loading, analysisErrors, scoreVars>>
       ELSE AnalysisSettles(c, index, analysis)

\* fetchWithTimeout: the abort timers of the signal fetches that never
\* answered fire, every one of them returns null, and analyzeCoinSignal
\* returns null for want of news and social data.
SignalsTimeOut(c, index) ==
    /\ cyc[c].phase = "analyzing"
    /\ index \in cyc[c].pending \ Summarizing(c)
    /\ AnalysisSettles(c, index, Absent)

\* generateComprehensiveAnalysis: the summarizer's fetch answered or failed;
\* either way a summary comes back and analyzeCoinSignal returns.
SummaryArrives(c, s) ==
    /\ s \in cyc[c].summarizing
    /\ AnalysisSettles(c, s.index, s.analysis)

NextLive ==
    \/ \E c \in 1..MaxCycles : StartRefresh(c)
    \/ \E c \in 1..MaxCycles, tickers \in TickerInputs : PricesArrive(c, tickers)
    \/ \E c \in 1..MaxCycles, index \in 1..NumCoins, analysis \in AnalysisOutcomes,
          hasKey \in BOOLEAN : SignalsArrive(c, index, analysis, hasKey)
    \/ \E c \in 1..MaxCycles, index \in 1..NumCoins : SignalsTimeOut(c, index)
    \/ \E c \in 1..MaxCycles, index \in 1..NumCoins, analysis \in AnalysisOutcomes :
          SummaryArrives(c, [index |-> index, analysis |-> analysis])

\* What the program itself schedules: the interval timer and the abort timers
\* of fetchWithTimeout.  An upstream answer is the environment's step and is
\* never forced: the price fetch and the summarizer fetch carry no timer.
FairLive ==
    /\ \A c \in 1..MaxCycles : WF_vars(StartRefresh(c))
    /\ \A c \in 1..MaxCycles, index \in 1..NumCoins : WF_vars(SignalsTimeOut(c, index))

SpecLive == InitApp /\ [][NextLive]_vars /\ FairLive

-----------------------------------------------------------------------------
(* The summarizer: generateComprehensiveAnalysis and its fallback *)

\* AnalysisData as far as the summaries read it; percentages in thousandths.
SentimentData(total, positive, negative, negativePercent) ==
    [total |-> total, positive |-> positive, negative |-> negative,
     negativePercent |-> negativePercent]

AnalysisData(newsStats, socialStats, onChain, riskLevel, priceChange) ==
    [present |-> TRUE, newsStats |-> newsStats, socialStats |-> socialStats,
     onChain |-> onChain, riskLevel |-> riskLevel, priceChange |-> priceChange]

Max(a, b) == IF a >= b THEN a ELSE b

\* Number.prototype.toFixed(1) of a value in thousandths: the value in tenths
ToFixed1(x) ==
    IF x >= 0 THEN (x + 50) \div 100 ELSE -((-x + 50) \div 100)

\* A fallback message: its template, the numbers it interpolates (in tenths,
\* counts as they are), and for the netflow templates the direction named and
\* the direction the risk is said to take.
Message(template, values, direction, risk) ==
    [template |-> template, values |-> values, direction |-> direction, risk |-> risk]

\* `리스크 ${direction === '대량 유입' ? '하락' : '상승'} 가능`
HighNetflowMessage(nf) ==
    Message("high_netflow", <<ToFixed1(Abs(nf))>>,
            IF nf > 0 THEN "inflow" ELSE "outflow",
            IF nf > 0 THEN "falls" ELSE "rises")

HasModerateNetflow(data) ==
    /\ data.onChain.present
    /\ Abs(data.onChain.netflowPercent) > 10000
    /\ Abs(data.onChain.netflowPercent) <= 20000

generateDefaultSummary(data) ==
    LET riskLevel == data.riskLevel
        negativeNewsPercent == data.newsStats.negativePercent
        negativeSocialPercent == data.socialStats.negativePercent
        worst == ToFixed1(Max(negativeNewsPercent, negativeSocialPercent))
        price == ToFixed1(data.priceChange)
        hasLargePriceDrop == data.priceChange < -5000
        hasLargePriceRise == data.priceChange > 5000
        hasModeratePriceDrop == data.priceChange < -2000 /\ data.priceChange >= -5000
        hasModeratePriceRise == data.priceChange > 2000 /\ data.priceChange <= 5000
        hasHighNetflow == data.onChain.present /\ Abs(data.onChain.netflowPercent) > 20000
        hasActiveAddressDrop ==
            data.onChain.present /\ data.onChain.activeAddressChange < -15000
        hasActiveAddressRise ==
            data.onChain.present /\ data.onChain.activeAddressChange > 15000
        nf == data.onChain.netflowPercent
        aa == data.onChain.activeAddressChange
        flow == IF nf > 0 THEN "inflow" ELSE "outflow"
    IN IF hasLargePriceDrop THEN
         IF negativeNewsPercent > 30000 \/ negativeSocialPercent > 30000
         THEN Message("drop_negative_sentiment", <<worst, Abs(price)>>, "", "rises")
         ELSE IF hasHighNetflow
         THEN Message("drop_netflow", <<Abs(price), ToFixed1(Abs(nf))>>, flow, "rises")
         ELSE Message("drop", <<Abs(price)>>, "", "rises")
       ELSE IF hasLargePriceRise THEN
         IF data.newsStats.positive > data.newsStats.negative * 2
         THEN Message("rise_positive_news", <<data.newsStats.positive, price>>, "", "")
         ELSE IF hasHighNetflow /\ nf < 0
         THEN Message("rise_outflow", <<price, ToFixed1(Abs(nf))>>, "outflow", "")
         ELSE Message("rise", <<price>>, "", "")
       ELSE IF hasModeratePriceDrop THEN
         IF negativeNewsPercent > 20000 \/ negativeSocialPercent > 20000
         THEN Message("moderate_drop_negative_sentiment", <<worst, Abs(price)>>, "", "")
         ELSE Message("moderate_drop", <<Abs(price)>>, "", "")
       ELSE IF hasModeratePriceRise THEN
         Message("moderate_rise", <<price>>, "", "")
       ELSE IF hasHighNetflow THEN
         HighNetflowMessage(nf)
       ELSE IF HasModerateNetflow(data) THEN
         Message("moderate_netflow", <<ToFixed1(Abs(nf))>>, flow, "")
       ELSE IF hasActiveAddressDrop THEN
         Message("active_address_drop", <<ToFixed1(Abs(aa))>>, "", "")
       ELSE IF hasActiveAddressRise THEN
         Message("active_address_rise", <<ToFixed1(aa)>>, "", "")
       ELSE IF riskLevel = "LOW" THEN
         IF negativeNewsPercent < 10000 /\ negativeSocialPercent < 10000
         THEN Message("low_positive", <<worst>>, "", "")
         ELSE Message("low",
                  <<ToFixed1(negativeNewsPercent), ToFixed1(negativeSocialPercent)>>,
                  "", "")
       ELSE IF riskLevel = "MEDIUM" THEN
         IF negativeNewsPercent > 20000 \/ negativeSocialPercent > 20000
         THEN Message("medium_negative",
                  <<ToFixed1(negativeNewsPercent), ToFixed1(negativeSocialPercent)>>,
                  "", "")
         ELSE Message("medium_mixed", <<>>, "", "")
       ELSE
         IF negativeNewsPercent > 30000 \/ negativeSocialPercent > 30000
         THEN Message("high_negative",
                  <<ToFixed1(negativeNewsPercent), ToFixed1(negativeSocialPercent)>>,
                  "", "")
         ELSE IF hasLargePriceDrop \/ hasHighNetflow
         THEN Message("high_anomaly", <<>>, "", "")
         ELSE Message("high", <<>>, "", "")

\* What came of the fetch to the chat-completions endpoint
REPLIES ==
    {"network_error",    \* fetch rejects
     "not_ok",           \* response.ok is false
     "json_error",       \* response.json() rejects
     "no_choices",       \* the body has no choices array: choices[0] throws
     "empty_choices",    \* choices is []
     "no_content",       \* choices[0] has no message, no content, or a blank one
     "content"}          \* choices[0].message.content is a non-blank string

Reply(kind, chars) == [kind |-> kind, chars |-> chars]

\* The value the returned promise resolves to: the fallback message or the
\* reply's text, of which the length is kept.
Fallback(data) == [kind |-> "default", message |-> generateDefaultSummary(data)]

\* if (summary.length > 100) summary = summary.substring(0, 97) + '...'
Truncated(chars) == IF chars > 100 THEN 97 + 3 ELSE chars

\* generateComprehensiveAnalysis with a blank reply returned as it is
generateComprehensiveAnalysisBlank(data, hasKey, reply) ==
    IF ~hasKey THEN Fallback(data)
    ELSE CASE reply.kind \in {"network_error", "json_error", "no_choices"} -> Fallback(data)
           [] reply.kind = "not_ok" -> Fallback(data)
           [] reply.kind \in {"empty_choices", "no_content"} -> [kind |-> "ai", chars |-> 0]
           [] OTHER -> [kind |-> "ai", chars |-> Truncated(reply.chars)]

\* The rejections and the TypeError end in the catch block, the non-OK
\* response in its own return, the missing content in the || of the same line.
generateComprehensiveAnalysis(data, hasKey, reply) ==
    IF ~hasKey THEN Fallback(data)
    ELSE CASE reply.kind \in {"network_error", "json_error", "no_choices"} -> Fallback(data)
           [] reply.kind = "not_ok" -> Fallback(data)
           [] reply.kind \in {"empty_choices", "no_content"} -> Fallback(data)
           [] OTHER -> [kind |-> "ai", chars |-> Truncated(reply.chars)]

-----------------------------------------------------------------------------
(* The summarizer on drawn inputs *)

NewsData ==
    { SentimentData(0, 0, 0, 0), SentimentData(100, 20, 40, 40000),
      SentimentData(100, 90, 5, 5000), SentimentData(100, 30, 25, 25000) }

SocialData ==
    { SentimentData(0, 0, 0, 0), SentimentData(50, 20, 12, 24000),
      SentimentData(50, 10, 18, 36000) }

OnChainData ==
    { Absent, OnChain(0, 0), OnChain(25000, 0), OnChain(-25000, 0),
      OnChain(15000, -20000), OnChain(-15000, 20000), OnChain(0, -20000),
      OnChain(0, 20000), OnChain(25000, -20000) }

PriceData == {-7200, -3000, 0, 3000, 7200}

DataInputs ==
    { AnalysisData(n, s, o, l, p) :
        n \in NewsData, s \in SocialData, o \in OnChainData,
        l \in {"LOW", "MEDIUM", "HIGH"}, p \in PriceData }

ReplyInputs ==
    { Reply(kind, 0) : kind \in REPLIES \ {"content"} }
      \cup { Reply("content", 60), Reply("content", 140) }

RequestInputs ==
    { [present |-> TRUE, data |-> data, hasKey |-> hasKey, reply |-> reply] :
        data \in DataInputs, hasKey \in BOOLEAN, reply \in ReplyInputs }

\* One call per run: the request is drawn at the start.
InitSummary ==
    /\ now = 0
    /\ storageFull = FALSE
    /\ storedRules = <<>>
    /\ storedNotifications = <<>>
    /\ nextRuleId = 1
    /\ notifSeq = 0
    /\ isOpen = FALSE
    /\ rules = <<>>
    /\ delivered = <<>>
    /\ notifications = <<>>
    /\ lastChecked = <<>>
    /\ coins = <<>>
    /\ cyc = [c \in 1..MaxCycles |-> IdleCycle]
    /\ analyzing = FALSE
    /\ loading = FALSE
    /\ analysisErrors = {}
    /\ signals = Absent
    /\ assessed = Absent
    /\ snapshot = Absent
    /\ composite = Absent
    /\ request \in RequestInputs
    /\ summary = Absent

Summarize ==
    /\ ~summary.present
    /\ summary' = [present |-> TRUE,
                   result |-> generateComprehensiveAnalysis(request.data,
                                  request.hasKey, request.reply)]
    /\ UNCHANGED <<now, storageFull, editorVars, watchVars, coins, cyc, analyzing,
                   loading, analysisErrors, signals, assessed, snapshot, composite,
                   request>>

NextSummary == Summarize

SpecSummary == InitSummary /\ [][NextSummary]_vars

-----------------------------------------------------------------------------
(* Claims about the matcher *)

\* The notifications of the latest pass that name this rule and this asset
DeliveredFor(rule, coin) ==
    { k \in 1..Len(delivered) :
        delivered[k].watchRuleId = rule.id /\ delivered[k].coinSymbol = coin.symbol }

\* C4: a rule whose condition list is empty matches no asset, whatever the
\* asset's state, the rule's scope and its enabled flag, and the evaluation
\* pass emits no notification for it.
C4_EmptyRuleNeverMatches ==
    \A i \in 1..Len(storedRules) :
        Len(storedRules[i].conditions) = 0 =>
            /\ \A coin \in CoinInputs : ~checkWatchConditions(storedRules[i], coin)
            /\ \A k \in 1..Len(delivered) : delivered[k].watchRuleId # storedRules[i].id

C4_Witness ==
    /\ Len(lastChecked) = 1
    /\ lastChecked[1].analysis.present
    /\ Len(storedRules) = 1
    /\ storedRules[1].enabled
    /\ storedRules[1].coinSymbols.isNull
    /\ Len(storedRules[1].conditions) = 0
    /\ delivered = <<>>

\* C5: a rule scoped to an explicit, non-empty symbol list does not match an
\* asset whose symbol is not in the list, even when the rule is enabled and
\* every condition holds for the asset, and the pass emits no notification
\* for that rule and asset.
C5_ScopedRuleSkipsOtherSymbols ==
    \A i \in 1..Len(storedRules) : \A coin \in CoinInputs :
        LET rule == storedRules[i]
        IN (/\ ~rule.coinSymbols.isNull
            /\ Len(rule.coinSymbols.list) > 0
            /\ coin.symbol \notin SeqToSet(rule.coinSymbols.list))
           => /\ ~checkWatchConditions(rule, coin)
              /\ (lastChecked = <<coin>> => DeliveredFor(rule, coin) = {})

C5_Witness ==
    /\ Len(lastChecked) = 1
    /\ Len(storedRules) = 1
    /\ LET rule == storedRules[1]
           coin == lastChecked[1]
       IN /\ rule.enabled
          /\ rule.coinSymbols = Only(<<"BTC">>)
          /\ coin.symbol = "ETH"
          /\ Len(rule.conditions) > 0
          /\ \A c \in 1..Len(rule.conditions) : checkCondition(rule.conditions[c], coin)
          /\ delivered = <<>>

\* C7: conditions are AND-combined: a rule matches an asset, and the pass
\* notifies for it, only if every condition of the rule is true of the asset.
C7_AllConditionsRequired ==
    \A i \in 1..Len(storedRules) : \A coin \in CoinInputs :
        LET rule == storedRules[i]
            someFalse == \E c \in 1..Len(rule.conditions) :
                            ~checkCondition(rule.conditions[c], coin)
        IN someFalse
           => /\ ~checkWatchConditions(rule, coin)
              /\ (lastChecked = <<coin>> => DeliveredFor(rule, coin) = {})

C7_Witness ==
    /\ Len(lastChecked) = 1
    /\ Len(storedRules) = 1
    /\ LET rule == storedRules[1]
           coin == lastChecked[1]
       IN /\ rule.enabled
          /\ rule.coinSymbols.isNull
          /\ Len(rule.conditions) = 2
          /\ checkCondition(rule.conditions[1], coin)
          /\ ~checkCondition(rule.conditions[2], coin)
          /\ delivered = <<>>

-----------------------------------------------------------------------------
(* Claims about the cooldown and the rule store *)

\* A step in which an evaluation pass changed something
PassStep == delivered' # delivered \/ lastChecked' # lastChecked

StoredRuleById(store, id) == store[IndexOfRule(store, id)]

\* C1: once a notification was emitted for a rule/asset pair, a later pass
\* emits a new notification for the same pair only 60 seconds or more after it.
C1_PairSilentWithinCooldown ==
    [][\A k \in 1..Len(delivered') : \A m \in 1..Len(storedNotifications) :
          (/\ delivered' # delivered
           /\ storedNotifications[m].watchRuleId = delivered'[k].watchRuleId
           /\ storedNotifications[m].coinSymbol = delivered'[k].coinSymbol)
          => delivered'[k].triggeredAt - storedNotifications[m].triggeredAt
                >= COOLDOWN_MS]_vars

\* C2: any two notifications emitted for the same rule are at least 60
\* seconds apart, whichever assets they are for.
C2_RuleNotificationsSpaced ==
    \A i \in 1..Len(storedNotifications) : \A j \in 1..Len(storedNotifications) :
        (i # j /\ storedNotifications[i].watchRuleId = storedNotifications[j].watchRuleId)
        => Abs(storedNotifications[i].triggeredAt - storedNotifications[j].triggeredAt)
              >= COOLDOWN_MS

\* C3: a rule's last-triggered timestamp, once set, is neither cleared nor
\* moved back to an earlier value while the rule exists.
C3_LastTriggeredNeverMovesBack ==
    [][\A i \in 1..Len(storedRules) :
          (storedRules[i].lastTriggered.some
           /\ IndexOfRule(storedRules', storedRules[i].id) # 0)
          => LET after == StoredRuleById(storedRules', storedRules[i].id)
             IN /\ after.lastTriggered.some
                /\ after.lastTriggered.v >= storedRules[i].lastTriggered.v]_vars

\* C6: a pass emits no notification for a rule that is stored as disabled and
\* leaves that rule's last-triggered timestamp as it was.
C6_DisabledRuleSilent ==
    [][PassStep =>
          \A i \in 1..Len(storedRules) :
              ~storedRules[i].enabled =>
                  /\ \A k \in 1..Len(delivered') :
                        delivered'[k].watchRuleId # storedRules[i].id
                  /\ IndexOfRule(storedRules', storedRules[i].id) # 0
                  /\ StoredRuleById(storedRules', storedRules[i].id).lastTriggered
                        = storedRules[i].lastTriggered]_vars

\* A disabled rule whose conditions hold for an asset of the list just
\* evaluated, with no cooldown in the way, and nothing was delivered.
C6_Witness ==
    /\ Len(storedRules) = 1
    /\ ~storedRules[1].enabled
    /\ Len(storedRules[1].conditions) > 0
    /\ CooldownOver(storedRules[1], now)
    /\ lastChecked # <<>>
    /\ \E j \in 1..Len(lastChecked) :
          /\ InScope(storedRules[1], lastChecked[j])
          /\ AllConditionsHold(storedRules[1], lastChecked[j])
    /\ delivered = <<>>
    /\ notifSeq > 0

-----------------------------------------------------------------------------
(* Claims about the refresh cycle *)

\* C8: the evaluator is only ever called on the complete list of a batch all
\* of whose assets carry an assessment and none of whose analyses is still in
\* flight.
C8_EvaluatorWaitsForWholeBatch ==
    /\ lastChecked # <<>> =>
          LET c == lastChecked[1].cycle
          IN /\ \A j \in 1..Len(lastChecked) :
                   lastChecked[j].analysis.present /\ lastChecked[j].cycle = c
             /\ Len(lastChecked) = Len(cyc[c].updatedCoins)
             /\ cyc[c].pending = {}
    /\ \A c \in 1..MaxCycles : cyc[c].watched => cyc[c].pending = {}

\* The evaluator has run on the finished two-asset batch of cycle 1, and the
\* batch of cycle 2, published since with one assessment in and one analysis
\* in flight, has not been evaluated.
C8_Witness ==
    /\ Len(lastChecked) = 2
    /\ lastChecked[1].cycle = 1
    /\ cyc[1].watched
    /\ cyc[2].phase = "analyzing"
    /\ Cardinality(cyc[2].pending) = 1
    /\ coins = cyc[2].updatedCoins
    /\ \E j \in 1..Len(coins) : coins[j].analysis.present
    /\ ~cyc[2].watched

\* C9: when one asset's analysis fails, the other assets of the cycle keep
\* their assessments and the evaluator has run for the cycle by the time all
\* of its analyses have settled.
C9_FailureConfinedToAsset ==
    \A c \in 1..MaxCycles :
        (/\ cyc[c].phase = "done"
         /\ cyc[c].newErrors # {}
         /\ \E j \in 1..Len(cyc[c].updatedCoins) :
               cyc[c].updatedCoins[j].symbol \notin cyc[c].newErrors)
        => /\ \A j \in 1..Len(cyc[c].updatedCoins) :
                 cyc[c].updatedCoins[j].symbol \notin cyc[c].newErrors
                 => cyc[c].updatedCoins[j].analysis.present
           /\ cyc[c].watched

\* C10: once a newer cycle has published its asset list, no step replaces the
\* published list by a list of an older cycle.
C10_OlderCycleNeverOverwrites ==
    [][(coins # <<>> /\ coins' # <<>>) => coins'[1].cycle >= coins[1].cycle]_vars


\* C11: every refresh cycle that has started eventually finishes, and the
\* analyzing flag is eventually cleared, even if an upstream service never
\* answers: every upstream call is cut off by a timer.
C11_EveryCycleFinishes ==
    /\ \A c \in 1..MaxCycles :
          (cyc[c].phase \in {"fetching", "analyzing"}) ~> (cyc[c].phase = "done")
    /\ analyzing ~> ~analyzing


-----------------------------------------------------------------------------
(* Claims about the notification history *)

\* C12: the persisted history never holds more than 100 records and is
\* ordered newest first (each record is newer than the one behind it); a pass puts the notifications it emits in front, the
\* latest first, keeps the newest of the earlier records behind them, and
\* what falls off at the capacity is the oldest records.
C12_HistoryCappedNewestFirst ==
    /\ [](/\ Len(storedNotifications) <= MAX_STORED_NOTIFICATIONS
          /\ \A i \in 1..(Len(storedNotifications) - 1) :
                /\ storedNotifications[i].id > storedNotifications[i + 1].id
                /\ storedNotifications[i].triggeredAt
                      >= storedNotifications[i + 1].triggeredAt)
    /\ [][PassStep =>
            LET k == Len(delivered')
                kept == Len(storedNotifications') - k
            IN /\ kept >= 0
               /\ Len(storedNotifications') =
                     IF Len(storedNotifications) + k <= MAX_STORED_NOTIFICATIONS
                     THEN Len(storedNotifications) + k
                     ELSE MAX_STORED_NOTIFICATIONS
               /\ \A i \in 1..k : storedNotifications'[i] = delivered'[k + 1 - i]
               /\ \A i \in 1..kept :
                     storedNotifications'[k + i] = storedNotifications[i]]_vars

\* The history was full, a pass emitted two notifications, and the two oldest
\* records are gone.
C12_Witness ==
    /\ Len(storedNotifications) = MAX_STORED_NOTIFICATIONS
    /\ Len(delivered) = 2
    /\ storedNotifications[1] = delivered[2]
    /\ storedNotifications[2] = delivered[1]
    /\ storedNotifications[MAX_STORED_NOTIFICATIONS].id
          > EarlierHistory(MAX_STORED_NOTIFICATIONS)[MAX_STORED_NOTIFICATIONS].id


-----------------------------------------------------------------------------
(* Claims about the scoring engine *)

\* The base classification of a score
BaseLevel(score) ==
    IF score >= 70 THEN "HIGH" ELSE IF score >= 40 THEN "MEDIUM" ELSE "LOW"

RISK_LEVELS == {"LOW", "MEDIUM", "HIGH", "EXTREME"}

\* The asset of the latest analyzeCoinSignal call, carrying what it returned
AssessedCoin == Coin(signals.symbol, signals.change24h, 0, assessed)

\* C13: a score that is not the unavailable sentinel is an integer from 0 to
\* 100, both the composite of calculateRiskScore and the score that
\* analyzeCoinSignal puts into the assessment.
C13_ScoreIntegerInRange ==
    /\ composite.present => composite.score \in 0..100
    /\ (assessed.present /\ assessed.riskScore # UNAVAILABLE)
          => assessed.riskScore \in 0..100

\* C14: the level of an available assessment is the base classification of
\* the score it reports: HIGH from 70, MEDIUM from 40 to 69, LOW below 40.
C14_LevelAgreesWithScore ==
    /\ composite.present => composite.level = BaseLevel(composite.score)
    /\ (assessed.present /\ assessed.riskScore # UNAVAILABLE)
          => assessed.riskLevel = BaseLevel(assessed.riskScore)

\* C15: a snapshot whose news totalCount is 0 has news sub-score 0, and one
\* whose social totalCount is 0 has social sub-score 0, whatever its other
\* fields (risk tags included) hold.
C15_ZeroTotalZeroSubScore ==
    snapshot.present =>
        /\ snapshot.news.totalCount = 0 => NewsScore(snapshot).num = 0
        /\ snapshot.social.totalCount = 0 => SocialScore(snapshot).num = 0

C17_UnavailableShownExplicitly ==
    (assessed.present /\ assessed.riskScore = UNAVAILABLE)
       => /\ assessed.riskLevel \notin RISK_LEVELS
          /\ CardLabel(AssessedCoin) \notin {getRiskVisuals(l) : l \in RISK_LEVELS}

\* C18: when exactly one of the news and social snapshots arrived, an
\* assessment is produced whose stats carry that snapshot's counts and zeros
\* for the missing category, unlike the outcome when both are missing, which
\* is no assessment at all.
C18_PartialDataProceeds ==
    signals.present =>
        LET news == signals.newsStats
            social == signals.socialStats
        IN /\ (news.present /\ ~social.present)
                 => /\ assessed.present
                    /\ assessed.stats.social = [negativeCount |-> 0, totalCount |-> 0]
                    /\ assessed.stats.news.totalCount = news.total
                    /\ assessed.stats.news.negativeCount = news.negative
           /\ (~news.present /\ social.present)
                 => /\ assessed.present
                    /\ assessed.stats.news.totalCount = 0
                    /\ assessed.stats.news.negativeCount = 0
                    /\ assessed.stats.social.totalCount = social.total
                    /\ assessed.stats.social.negativeCount = social.negative
           /\ (~news.present /\ ~social.present) => ~assessed.present

\* Only the social snapshot arrived, with content, and the assessment carries
\* it next to zero news counts.
C18_Witness ==
    /\ signals.present
    /\ ~signals.newsStats.present
    /\ signals.socialStats = SentimentResp(50, 10)
    /\ assessed.present
    /\ assessed.stats.news.totalCount = 0
    /\ assessed.stats.social.totalCount = 50


-----------------------------------------------------------------------------
(* Claims about conditions on the assessment and on the price *)

\* Thresholds of a risk-score condition, in thousandths; -1 is the sentinel
ScoreThresholds == {-2000, -1000, 0, 50000, 100000}

\* The assets that carry what analyzeCoinSignal returns on the drawn responses
EngineCoins ==
    { Coin(COINS_CONFIG[1], Some(7200), 0,
           analyzeCoinSignal(Coin(COINS_CONFIG[1], Some(7200), 0, Absent), newsStats,
                             socialStats, riskData, Absent)) :
        newsStats \in NewsInputs, socialStats \in SocialInputs,
        riskData \in RiskInputs }

IsRiskCondition(condition) == condition.type \in {"risk_score", "risk_level"}

ChangeThresholds == {0, 3000, 5000, 7200}

\* The assessments an evaluated asset can carry
Assessments ==
    (AnalysisOutcomes \cup {coin.analysis : coin \in EngineCoins}) \ {Absent}

-----------------------------------------------------------------------------
(* Claims about the store's unknown ids and failing writes *)

RuleIdsOf(rs) == { rs[i].id : i \in 1..Len(rs) }

\* C21: updateWatchRule and deleteWatchRule with an id that is not stored
\* return the stored rule list unchanged, whatever the updates and whether or
\* not the write succeeds; and no step puts back into the store an id that was
\* handed out earlier and is not stored now (a rule deleted in another tab and
\* then edited from the stale settings view, or written to by the evaluator).
C21_UnknownIdLeavesStore ==
    /\ [](\A id \in 1..(MaxRules + 1) : \A full \in BOOLEAN :
            id \notin RuleIdsOf(storedRules) =>
              /\ deleteWatchRule(storedRules, id, full) = storedRules
              /\ updateWatchRule(storedRules, id, [enabled |-> FALSE], full) = storedRules
              /\ updateWatchRule(storedRules, id, [lastTriggered |-> Some(now)], full)
                    = storedRules
              /\ \A i \in 1..Len(rules) :
                    updateWatchRule(storedRules, id, AsUpdates(rules[i]), full)
                       = storedRules)
    /\ [][\A id \in 1..(nextRuleId - 1) :
            id \notin RuleIdsOf(storedRules) => id \notin RuleIdsOf(storedRules')]_vars

\* The settings view holds a rule that is no longer stored, edited (a
\* condition added, the rule switched off) while the store stayed without it.
C21_Witness ==
    /\ isOpen
    /\ ~storageFull
    /\ storedRules = <<>>
    /\ \E i \in 1..Len(rules) :
          /\ rules[i].id \notin RuleIdsOf(storedRules)
          /\ ~rules[i].enabled
          /\ Len(rules[i].conditions) > 0

\* C22: a rule added by handleAddRule is in the rule set the next pass loads,
\* and a pass that emitted a notification for a rule leaves that rule's
\* last-triggered timestamp at the time of the notification, also when the
\* write to storage failed.
C22_FailedWriteStillSeen ==
    /\ [][nextRuleId' # nextRuleId => nextRuleId \in RuleIdsOf(storedRules')]_vars
    /\ [][delivered' # delivered =>
            \A k \in 1..Len(delivered') :
               LET index == IndexOfRule(storedRules', delivered'[k].watchRuleId)
               IN /\ index # 0
                  /\ storedRules'[index].lastTriggered
                        = Some(delivered'[k].triggeredAt)]_vars

-----------------------------------------------------------------------------
(* Claims about the summarizer *)

\* C23: every call of the summarizer returns a summary, and when there is no
\* API key, or the fetch rejects, or the response is not OK, or its body
\* cannot be parsed or lacks the choices or the content, the summary returned
\* is the rule-based fallback message of the same data.
C23_FailureYieldsFallback ==
    summary.present =>
        /\ summary.result.kind \in {"default", "ai"}
        /\ (~request.hasKey \/ request.reply.kind # "content") =>
              /\ summary.result.kind = "default"
              /\ summary.result.message = generateDefaultSummary(request.data)

\* A key is configured and the reply's body is malformed
C23_Witness ==
    /\ summary.present
    /\ request.hasKey
    /\ request.reply.kind \in {"no_choices", "json_error"}
    /\ summary.result.kind = "default"

\* The rule of the specified list that applies first to the data: 1-3 large
\* drop, 4-6 large rise, 7 moderate move, 8 high netflow alone, 9 surge or
\* drop of the active addresses alone, 10 by level.
SpecifiedRule(data) ==
    LET drop == data.priceChange < -5000
        rise == data.priceChange > 5000
        moderate == Abs(data.priceChange) > 2000 /\ Abs(data.priceChange) <= 5000
        highNetflow == data.onChain.present /\ Abs(data.onChain.netflowPercent) > 20000
        active == data.onChain.present /\ Abs(data.onChain.activeAddressChange) > 15000
    IN IF drop /\ (data.newsStats.negativePercent > 30000
                   \/ data.socialStats.negativePercent > 30000) THEN 1
       ELSE IF drop /\ highNetflow THEN 2
       ELSE IF drop THEN 3
       ELSE IF rise /\ data.newsStats.positive > 2 * data.newsStats.negative THEN 4
       ELSE IF rise /\ highNetflow /\ data.onChain.netflowPercent < 0 THEN 5
       ELSE IF rise THEN 6
       ELSE IF moderate THEN 7
       ELSE IF highNetflow THEN 8
       ELSE IF active THEN 9
       ELSE 10

\* The messages that belong to each rule of the list
RuleTemplates(rule) ==
    CASE rule = 1 -> {"drop_negative_sentiment"}
      [] rule = 2 -> {"drop_netflow"}
      [] rule = 3 -> {"drop"}
      [] rule = 4 -> {"rise_positive_news"}
      [] rule = 5 -> {"rise_outflow"}
      [] rule = 6 -> {"rise"}
      [] rule = 7 -> {"moderate_drop_negative_sentiment", "moderate_drop", "moderate_rise"}
      [] rule = 8 -> {"high_netflow"}
      [] rule = 9 -> {"active_address_drop", "active_address_rise"}
      [] OTHER -> {"low_positive", "low", "medium_negative", "medium_mixed",
                   "high_negative", "high_anomaly", "high"}

\* C25: the fallback message is the one of the first rule of the specified
\* list that applies to the data; with no price move above 2% and no high
\* netflow, a surge or drop of the active addresses gives the
\* network-activity message.
C25_FallbackFirstMatch ==
    (summary.present /\ summary.result.kind = "default") =>
        summary.result.message.template \in RuleTemplates(SpecifiedRule(request.data))

\* C26: the high-netflow message says the risk rises for a net inflow and
\* falls for a net outflow.
C26_NetflowFramingFollowsDirection ==
    (/\ summary.present
     /\ summary.result.kind = "default"
     /\ summary.result.message.template = "high_netflow")
    => /\ summary.result.message.direction = "inflow" => summary.result.message.risk = "rises"
       /\ summary.result.message.direction = "outflow" => summary.result.message.risk = "falls"

-----------------------------------------------------------------------------
(* Claims about the composite formula and the risk tags *)

\* The weights of the specified tag table
SpecifiedTagWeight ==
    [hack |-> 40, exploit |-> 40, fraud |-> 35, market_crash |-> 30,
     exchange_issue |-> 25, regulation |-> 20, lawsuit |-> 20, technical |-> 15]

Min(a, b) == IF a <= b THEN a ELSE b

\* The specified composite, times 1000 * nt * st where nt and st are the news
\* and social totals (1 for an empty total): 0.4 * (negRatio * 60 + strength)
\* + 0.3 * negRatio * 100 + 0.3 * (0.6 * netflowStep + 0.4 * activeStep).
SpecifiedComposite(stats) ==
    LET nt == Max(stats.news.totalCount, 1)
        st == Max(stats.social.totalCount, 1)
        tags == stats.news.riskTags
        weights == { IF t \in DOMAIN SpecifiedTagWeight THEN SpecifiedTagWeight[t] ELSE 10 :
                     t \in tags }
        top == IF tags = {} THEN 0 ELSE CHOOSE w \in weights : \A v \in weights : v <= w
        strength10 == Min(400, top * (9 + Cardinality(tags)))
        nf == stats.onChain.netflowPercent
        aa == stats.onChain.activeAddressChange
        netflowStep == CASE nf >= 30000 -> 100 [] nf >= 20000 -> 80 [] nf >= 10000 -> 60
                         [] nf >= 0 -> 40 [] nf >= -10000 -> 30 [] nf >= -20000 -> 20
                         [] OTHER -> 10
        activeStep == CASE aa <= -20000 -> 100 [] aa <= -10000 -> 70 [] aa <= 0 -> 50
                        [] aa <= 10000 -> 40 [] aa <= 20000 -> 30 [] OTHER -> 20
        scaled == 400 * st * (IF stats.news.totalCount > 0
                              THEN 60 * stats.news.negativeCount ELSE 0)
                  + 40 * strength10 * nt * st
                  + 300 * nt * (IF stats.social.totalCount > 0
                                THEN 100 * stats.social.negativeCount ELSE 0)
                  + (180 * netflowStep + 120 * activeStep) * nt * st
    IN (scaled + 500 * nt * st) \div (1000 * nt * st)

WorkedSnapshot == Stats(40, 100, {"hack"}, 10, 50, OnChain(25000, -25000))

ZeroSnapshot == Stats(0, 0, {}, 0, 0, OnChain(0, 0))

RISK_TAGS ==
    {"hack", "exploit", "fraud", "market_crash", "exchange_issue", "regulation",
     "lawsuit", "technical"}

\* Enabled rules of scope "all" with a news-risk-tag condition, alone or after
\* a price condition that the drawn prices satisfy
TagRules ==
    { [id |-> 1, enabled |-> TRUE, coinSymbols |-> AllCoins, conditions |-> cl,
       lastTriggered |-> None] :
      cl \in UNION { { <<Cond("news_risk_tag", ">", Str(""), tag)>>,
                       <<Cond("price_change", ">", Num(2000), ""),
                         Cond("news_risk_tag", ">", Str(""), tag)>> } :
                     tag \in RISK_TAGS } }

\* C27: an assessment returned by analyzeCoinSignal has no risk tags, so a
\* rule with a news-risk-tag condition does not match the assessed asset and
\* a pass over it emits no notification for the rule.
C27_TagRuleNeverMatches ==
    assessed.present =>
        /\ assessed.stats.news.riskTags = {}
        /\ \A rule \in TagRules :
              /\ ~checkWatchConditions(rule, AssessedCoin)
              /\ PassResult(<<AssessedCoin>>, <<rule>>, <<>>, <<>>, 0, now, FALSE).out = <<>>

\* News arrived with negative items, and the rest of a tag rule holds
C27_Witness ==
    /\ assessed.present
    /\ signals.newsStats.present
    /\ assessed.stats.news.negativeCount > 0
    /\ checkCondition(Cond("price_change", ">", Num(2000), ""), AssessedCoin)
    /\ \A rule \in TagRules : ~checkWatchConditions(rule, AssessedCoin)

-----------------------------------------------------------------------------
(* Claims about the published asset list *)

OneCycle(list) ==
    \A i \in 1..Len(list) : \A j \in 1..Len(list) : list[i].cycle = list[j].cycle

\* C28: the asset list on display is the list of one refresh cycle (its
\* prices, with the assessments that cycle has attached so far), and so is
\* every list handed to checkAllWatchRules, also while two cycles overlap.
C28_ListFromOneCycle ==
    /\ OneCycle(coins)
    /\ OneCycle(lastChecked)
    /\ \E c \in 1..MaxCycles : coins = cyc[c].updatedCoins

\* The second cycle has published its list and the first, still analysing
\* when it did, has published over it and had its list evaluated.
C28_Witness ==
    /\ cyc[2].phase \in {"analyzing", "done"}
    /\ Len(cyc[2].updatedCoins) = NumCoins
    /\ Len(coins) = NumCoins
    /\ \A i \in 1..Len(coins) : coins[i].cycle = 1 /\ coins[i].analysis.present
    /\ lastChecked = coins

-----------------------------------------------------------------------------
(* The settings editor's condition row: type, level and evaluation *)

CONDITION_TYPES ==
    {"news_risk_tag", "social_negative", "price_change", "risk_score", "risk_level"}

NUMERIC_TYPES == {"social_negative", "price_change", "risk_score"}

\* The type select's onChange: the value is chosen by the type the condition
\* had when the row was rendered, the operator is kept.
TypeChangeUpdates(condition, type) ==
    [type |-> type,
     value |-> IF condition.type = "risk_level" THEN Str("LOW")
               ELSE IF condition.type = "news_risk_tag" THEN Str("")
               ELSE Num(0),
     riskTag |-> ""]

handleChangeConditionType(i, conditionIndex, type) ==
    /\ isOpen
    /\ i \in 1..Len(rules)
    /\ conditionIndex \in 1..Len(rules[i].conditions)
    /\ rules[i].conditions[conditionIndex].type # type
    /\ handleUpdateCondition(i, conditionIndex,
           TypeChangeUpdates(rules[i].conditions[conditionIndex], type))

\* The level select, shown for a risk_level condition
handleSelectRiskLevel(i, conditionIndex, level) ==
    /\ isOpen
    /\ i \in 1..Len(rules)
    /\ conditionIndex \in 1..Len(rules[i].conditions)
    /\ rules[i].conditions[conditionIndex].type = "risk_level"
    /\ handleUpdateCondition(i, conditionIndex, [value |-> Str(level)])

NextEditor ==
    \/ Tick
    \/ OpenSettings
    \/ CloseSettings
    \/ handleAddRule(AllCoins)
    \/ \E i \in 1..MaxRules : handleAddCondition(i)
    \/ \E i \in 1..MaxRules, k \in 1..MaxConds, type \in CONDITION_TYPES :
          handleChangeConditionType(i, k, type)
    \/ \E i \in 1..MaxRules, k \in 1..MaxConds, level \in RISK_LEVELS :
          handleSelectRiskLevel(i, k, level)
    \/ Evaluate(StoreList)

SpecEditor == Init /\ [][NextEditor]_vars

\* Assets with an available assessment, one of each level the engine gives
AvailableCoins ==
    { Coin("BTC", Some(0), 0,
           Analysis(score, BaseLevel(score), Stats(0, 10, {}, 0, 10, OnChain(0, 0)))) :
      score \in {10, 55, 82} }

\* C29: a stored condition of type risk_level has a risk-level name as its
\* value and a stored condition of a numeric type has a number, whatever type
\* changes the editor made; and a risk_level condition with the operator '>'
\* does not hold for every asset that has an available assessment.
C29_TypeChangeKeepsValueKind ==
    \A i \in 1..Len(storedRules) : \A k \in 1..Len(storedRules[i].conditions) :
        LET condition == storedRules[i].conditions[k]
        IN /\ condition.type = "risk_level" =>
                 (condition.value.kind = "str" /\ condition.value.s \in RISK_LEVELS)
           /\ condition.type \in NUMERIC_TYPES => condition.value.kind = "num"
           /\ (condition.type = "risk_level" /\ condition.operator = ">") =>
                 \E coin \in AvailableCoins : ~checkCondition(condition, coin)

-----------------------------------------------------------------------------
(* The matcher on rules of every scope with one condition *)

ScopeRules ==
    { [id |-> 1, enabled |-> e, coinSymbols |-> sc, conditions |-> <<condition>>,
       lastTriggered |-> None] :
      e \in BOOLEAN, sc \in ScopeInputs, condition \in CondInputs }

InitScope ==
    /\ now = 0
    /\ storageFull = FALSE
    /\ \E rule \in ScopeRules : storedRules = <<rule>>
    /\ storedNotifications = <<>>
    /\ nextRuleId = 2
    /\ notifSeq = 0
    /\ isOpen = FALSE
    /\ rules = <<>>
    /\ delivered = <<>>
    /\ notifications = <<>>
    /\ lastChecked = <<>>
    /\ QuietApp

NextScope == \E coin \in CoinInputs : CheckOne(coin)

SpecScope == InitScope /\ [][NextScope]_vars

-----------------------------------------------------------------------------
(* Claims about the empty scope list *)

\* C30: a rule whose coinSymbols is an empty list matches exactly the assets
\* the same rule with coinSymbols null matches: no symbol is filtered out, and
\* a pass notifies for it as it would for the "all assets" rule.
C30_EmptyScopeIsAllAssets ==
    \A i \in 1..Len(storedRules) :
        LET rule == storedRules[i]
            allAssets == [rule EXCEPT !.coinSymbols = AllCoins]
        IN (~rule.coinSymbols.isNull /\ Len(rule.coinSymbols.list) = 0) =>
              /\ \A coin \in CoinInputs :
                    /\ InScope(rule, coin)
                    /\ checkWatchConditions(rule, coin) = checkWatchConditions(allAssets, coin)
              /\ Len(delivered) > 0 => checkWatchConditions(allAssets, lastChecked[1])
              /\ \A j \in 1..Len(lastChecked) :
                    checkWatchConditions(allAssets, lastChecked[j])
                       => rule.lastTriggered.some

\* The pass has just notified for a rule with an empty list, on each symbol
C30_Witness ==
    /\ Len(storedRules) = 1
    /\ ~storedRules[1].coinSymbols.isNull
    /\ Len(storedRules[1].coinSymbols.list) = 0
    /\ Len(delivered) = 1
    /\ delivered[1].coinSymbol = "ETH"

=============================================================================
